---- MODULE Spec2Model ----
(***************************************************************************)
(* Keyframe Linker (src/__init__.py): groups of linked frame numbers kept  *)
(* in the custom property 'linked_frames' of an action, the operators      *)
(* LinkFrames, FlipLinkedFrame and UnlinkFrames that edit them, and the    *)
(* save_pre handler that copies the current frame to the frames linked     *)
(* with it.                                                                *)
(*                                                                         *)
(* A LinkedFrame is a record [number, flipped].  A frame set (Python set   *)
(* of LinkedFrame, equal and hashed by number only) is a set of such       *)
(* records; the set operations below compare by number, as __eq__ and      *)
(* __hash__ do.  frame_sets (a Python list) is a sequence of frame sets.   *)
(* The stored property is a sequence of sequences of <<number, flag>>      *)
(* with flag 0 or 1 (the host stores the bool as an integer; the reader    *)
(* coerces it back with bool()).                                           *)
(***************************************************************************)
EXTENDS Integers, Sequences, FiniteSets, TLC

\* Frame numbers of the timeline are 1..NumFrames.
NumFrames == 5

Frames == 1..NumFrames

VARIABLES
    action_prop,    \* the action's custom property: [has |-> BOOLEAN, val |-> stored value]
    frame_current,  \* scene.frame_current, the playhead
    last,           \* the operator call that has just returned (op = "none": the host is idle)
    hook,           \* save_pre_handler: its position and its local variables
    host_ops        \* the copy, paste and frame_set calls save_pre_handler has made, in order

vars == <<action_prop, frame_current, last, hook, host_ops>>

\* `CPROP_LINKED_FRAMES not in action`
NoProp == [has |-> FALSE, val |-> <<>>]

----------------------------------------------------------------------------
\* LinkedFrame(number, flipped = False)
LinkedFrame(number, flipped) == [number |-> number, flipped |-> flipped]

\* LinkedFrame.__eq__: equal when the numbers are equal, whatever the flags.
LinkedFrameEq(f, g) == f.number = g.number

\* `f in frame_set` for a set hashed and compared by number.
SetContains(frame_set, f) == \E g \in frame_set : LinkedFrameEq(g, f)

\* Mutant of SetAdd: membership decided by number and flag together.
SetAddByNumberAndFlag(frame_set, f) == frame_set \cup {f}

\* set.add: an element equal to one already present is not added.
SetAdd(frame_set, f) ==
    IF SetContains(frame_set, f) THEN frame_set ELSE frame_set \cup {f}

\* set.remove of an element that is present.
SetRemove(frame_set, f) == {g \in frame_set : ~LinkedFrameEq(g, f)}

\* a.union(b): a copy of a, plus the elements of b that a does not contain.
SetUnion(a, b) == a \cup {g \in b : ~SetContains(a, g)}

\* set == set: same size and every element of one is in the other.
SetEq(a, b) ==
    /\ Cardinality(a) = Cardinality(b)
    /\ \A f \in a : SetContains(b, f)

\* The elements of a sequence.
Range(s) == {s[i] : i \in 1..Len(s)}

\* The list <<f[1], ..., f[n]>>.
RECURSIVE ListOf(_, _)
ListOf(f, n) == IF n = 0 THEN <<>> ELSE Append(ListOf(f, n - 1), f[n])

\* Iteration of a frame set in ascending number (the stored order of the
\* members is never read back: the reader builds a set, the report sorts).
RECURSIVE SortedFrames(_)
SortedFrames(frame_set) ==
    IF frame_set = {} THEN <<>>
    ELSE LET f == CHOOSE g \in frame_set : \A h \in frame_set : g.number <= h.number
         IN <<f>> \o SortedFrames(frame_set \ {f})

\* The same for a set of frame numbers: sorted(frame_numbers).
RECURSIVE sorted(_)
sorted(numbers) ==
    IF numbers = {} THEN <<>>
    ELSE LET n == CHOOSE m \in numbers : \A k \in numbers : m <= k
         IN <<n>> \o sorted(numbers \ {n})

----------------------------------------------------------------------------
\* Mutant of FrameSetOfSublist: the stored flag is not read.
RECURSIVE FrameSetOfSublistNoFlag(_, _)
FrameSetOfSublistNoFlag(sublist, frame_set) ==
    IF sublist = <<>> THEN frame_set
    ELSE FrameSetOfSublistNoFlag(Tail(sublist),
             SetAdd(frame_set, LinkedFrame(Head(sublist)[1], FALSE)))

\* get_frame_sets_for_action: every stored sublist becomes a set, built by
\* adding LinkedFrame(entry[0], bool(entry[1])) entry after entry.
RECURSIVE FrameSetOfSublist(_, _)
FrameSetOfSublist(sublist, frame_set) ==
    IF sublist = <<>> THEN frame_set
    ELSE FrameSetOfSublist(Tail(sublist),
             SetAdd(frame_set, LinkedFrame(Head(sublist)[1], Head(sublist)[2] # 0)))

get_frame_sets_for_action(act) ==
    LET prop == IF act.has THEN act.val ELSE <<>>
    IN ListOf([i \in 1..Len(prop) |-> FrameSetOfSublist(prop[i], {})], Len(prop))

\* The stored form of one frame set: [(f.number, f.flipped) for f in frame_set].
StoredSublist(frame_set) ==
    LET fs == SortedFrames(frame_set)
    IN ListOf([k \in 1..Len(fs) |-> <<fs[k].number, IF fs[k].flipped THEN 1 ELSE 0>>],
              Len(fs))

\* Mutant of set_frame_sets_for_action: stores every set, whatever its size.
set_frame_sets_unfiltered(act, frame_sets) ==
    LET prop_val == ListOf([i \in 1..Len(frame_sets) |-> StoredSublist(frame_sets[i])],
                           Len(frame_sets))
    IN IF Len(prop_val) = 0 THEN NoProp
       ELSE [has |-> TRUE, val |-> prop_val]

\* set_frame_sets_for_action: only the sets with more than one member are
\* stored; with none of them the property is deleted.
set_frame_sets_for_action(act, frame_sets) ==
    LET kept == SelectSeq(frame_sets, LAMBDA s : Cardinality(s) > 1)
        prop_val == ListOf([i \in 1..Len(kept) |-> StoredSublist(kept[i])], Len(kept))
    IN IF Len(prop_val) = 0 THEN NoProp
       ELSE [has |-> TRUE, val |-> prop_val]

----------------------------------------------------------------------------
\* find_linked_frame_set: the index of the first set with a frame of that
\* number, 0 for None.
find_linked_frame_set(frame_sets, frame_number) ==
    LET hits == {i \in 1..Len(frame_sets) :
                    \E f \in frame_sets[i] : f.number = frame_number}
    IN IF hits = {} THEN 0 ELSE CHOOSE i \in hits : \A j \in hits : i <= j

\* Mutant of find_linked_frame_sets: only the first such set is found.
find_first_linked_frame_set(frame_sets, frame_numbers) ==
    LET hits == {i \in 1..Len(frame_sets) :
                    \E f \in frame_sets[i] : f.number \in frame_numbers}
    IN IF hits = {} THEN <<>> ELSE <<CHOOSE i \in hits : \A j \in hits : i <= j>>

\* find_linked_frame_sets: the indices, in list order, of the sets with a
\* frame whose number is among frame_numbers.
find_linked_frame_sets(frame_sets, frame_numbers) ==
    SelectSeq(ListOf([i \in 1..Len(frame_sets) |-> i], Len(frame_sets)),
              LAMBDA i : \E f \in frame_sets[i] : f.number \in frame_numbers)

\* remove_all_in_place: deletes the elements the predicate holds of (the
\* predicate is a function on the elements of the list).
remove_all_in_place(predicate, l) == SelectSeq(l, LAMBDA x : ~predicate[x])

\* Mutant of remove_all_from_frame_set: stops after the first removal.
RECURSIVE remove_first_from_frame_set(_, _)
remove_first_from_frame_set(frame_set, frame_numbers) ==
    IF frame_numbers = {} THEN frame_set
    ELSE LET number == CHOOSE n \in frame_numbers : TRUE
             f == LinkedFrame(number, FALSE)
         IN IF SetContains(frame_set, f)
            THEN SetRemove(frame_set, f)
            ELSE remove_first_from_frame_set(frame_set, frame_numbers \ {number})

\* remove_all_from_frame_set: removes the frames with these numbers.
RECURSIVE remove_all_from_frame_set(_, _)
remove_all_from_frame_set(frame_set, frame_numbers) ==
    IF frame_numbers = {} THEN frame_set
    ELSE LET number == CHOOSE n \in frame_numbers : TRUE
             f == LinkedFrame(number, FALSE)
             rest == frame_numbers \ {number}
         IN IF SetContains(frame_set, f)
            THEN remove_all_from_frame_set(SetRemove(frame_set, f), rest)
            ELSE remove_all_from_frame_set(frame_set, rest)

\* list.remove(x): deletes the first element equal to x.
ListRemove(l, x) ==
    LET hits == {i \in 1..Len(l) : SetEq(l[i], x)}
    IN IF hits = {} THEN l
       ELSE LET i == CHOOSE j \in hits : \A k \in hits : j <= k
            IN SubSeq(l, 1, i - 1) \o SubSeq(l, i + 1, Len(l))

----------------------------------------------------------------------------
\* Mutant of NewFrameSet: the flag is not alternated.
RECURSIVE NewFrameSetSameFlag(_, _, _)
NewFrameSetSameFlag(numbers, flip, frame_set) ==
    IF numbers = <<>> THEN frame_set
    ELSE NewFrameSetSameFlag(Tail(numbers), flip,
                             SetAdd(frame_set, LinkedFrame(Head(numbers), flip)))

\* LinkFrames.execute, no found set: a new set of the sorted frame numbers,
\* flipped alternating from False.
RECURSIVE NewFrameSet(_, _, _)
NewFrameSet(numbers, flip, frame_set) ==
    IF numbers = <<>> THEN frame_set
    ELSE NewFrameSet(Tail(numbers), ~flip,
                     SetAdd(frame_set, LinkedFrame(Head(numbers), flip)))

\* Mutant of AddFrameNumbers: a selected member is replaced by a new frame.
RECURSIVE AddFrameNumbersReplacing(_, _)
AddFrameNumbersReplacing(frame_set, frame_numbers) ==
    IF frame_numbers = {} THEN frame_set
    ELSE LET number == CHOOSE n \in frame_numbers : TRUE
             f == LinkedFrame(number, FALSE)
         IN AddFrameNumbersReplacing(SetRemove(frame_set, f) \cup {f},
                                     frame_numbers \ {number})

\* LinkFrames.execute: `for frame_number in ...: frame_set.add(LinkedFrame(frame_number))`
RECURSIVE AddFrameNumbers(_, _)
AddFrameNumbers(frame_set, frame_numbers) ==
    IF frame_numbers = {} THEN frame_set
    ELSE LET number == CHOOSE n \in frame_numbers : TRUE
         IN AddFrameNumbers(SetAdd(frame_set, LinkedFrame(number, FALSE)),
                            frame_numbers \ {number})

\* Mutant of UnionFoundSets: the found sets stay in frame_sets.
RECURSIVE UnionFoundSetsKept(_, _, _)
UnionFoundSetsKept(found_sets, union_set, frame_sets) ==
    IF found_sets = <<>> THEN <<union_set, frame_sets>>
    ELSE UnionFoundSetsKept(Tail(found_sets),
                            SetUnion(union_set, Head(found_sets)),
                            frame_sets)

\* LinkFrames.execute, two or more found sets: the loop that unions the
\* found sets and removes each of them from frame_sets.
\* Returns <<union_set, frame_sets>>.
RECURSIVE UnionFoundSets(_, _, _)
UnionFoundSets(found_sets, union_set, frame_sets) ==
    IF found_sets = <<>> THEN <<union_set, frame_sets>>
    ELSE UnionFoundSets(Tail(found_sets),
                        SetUnion(union_set, Head(found_sets)),
                        ListRemove(frame_sets, Head(found_sets)))

\* LinkFrames.execute, the body of `if len(frame_numbers_to_link) > 0` up to
\* the save: the list frame_sets that is handed to set_frame_sets_for_action.
LinkFrameSets(frame_sets, frame_numbers_to_link) ==
    LET found == find_linked_frame_sets(frame_sets, frame_numbers_to_link)
    IN IF Len(found) = 0
       THEN Append(frame_sets, NewFrameSet(sorted(frame_numbers_to_link), FALSE, {}))
       ELSE IF Len(found) = 1
       THEN [frame_sets EXCEPT
                ![found[1]] = AddFrameNumbers(@, frame_numbers_to_link)]
       ELSE LET found_sets == ListOf([k \in 1..Len(found) |-> frame_sets[found[k]]],
                                     Len(found))
                u == UnionFoundSets(found_sets, {}, frame_sets)
            IN Append(u[2], AddFrameNumbers(u[1], frame_numbers_to_link))

\* Mutant of FlipInSet: the flag is cleared instead of negated.
FlipInSetToFalse(frame_set, frame_number) ==
    LET hits == {f \in frame_set : f.number = frame_number}
    IN IF hits = {} THEN frame_set
       ELSE LET f == SortedFrames(hits)[1]
            IN (frame_set \ {f}) \cup {LinkedFrame(f.number, FALSE)}

\* Mutant of FlipInSet: the flag is set instead of negated.
FlipInSetToTrue(frame_set, frame_number) ==
    LET hits == {f \in frame_set : f.number = frame_number}
    IN IF hits = {} THEN frame_set
       ELSE LET f == SortedFrames(hits)[1]
            IN (frame_set \ {f}) \cup {LinkedFrame(f.number, TRUE)}

\* FlipLinkedFrame.execute, the inner loop: the first frame of the set with
\* that number gets its flag negated.
FlipInSet(frame_set, frame_number) ==
    LET hits == {f \in frame_set : f.number = frame_number}
    IN IF hits = {} THEN frame_set
       ELSE LET f == SortedFrames(hits)[1]
            IN (frame_set \ {f}) \cup {LinkedFrame(f.number, ~f.flipped)}

\* FlipLinkedFrame.execute, the loop over frame_numbers_to_flip.
\* Returns <<frame_sets, flip_count>>.
RECURSIVE FlipFrameSets(_, _, _)
FlipFrameSets(frame_sets, frame_numbers_to_flip, flip_count) ==
    IF frame_numbers_to_flip = {} THEN <<frame_sets, flip_count>>
    ELSE LET frame_number == CHOOSE n \in frame_numbers_to_flip : TRUE
             rest == frame_numbers_to_flip \ {frame_number}
             i == find_linked_frame_set(frame_sets, frame_number)
         IN IF i # 0 /\ frame_sets[i] # {}
            THEN FlipFrameSets(
                     [frame_sets EXCEPT ![i] = FlipInSet(@, frame_number)],
                     rest, flip_count + 1)
            ELSE FlipFrameSets(frame_sets, rest, flip_count)

\* UnlinkFrames.execute: `for frame_set in found_sets: remove_all_from_frame_set(...)`
RECURSIVE UnlinkFoundSets(_, _, _)
UnlinkFoundSets(frame_sets, found, frame_numbers_to_unlink) ==
    IF found = <<>> THEN frame_sets
    ELSE UnlinkFoundSets(
             [frame_sets EXCEPT ![Head(found)] =
                 remove_all_from_frame_set(@, frame_numbers_to_unlink)],
             Tail(found), frame_numbers_to_unlink)

\* UnlinkFrames.execute, the body of `if len(found_sets) > 0` up to the save.
UnlinkFrameSets(frame_sets, frame_numbers_to_unlink) ==
    LET found == find_linked_frame_sets(frame_sets, frame_numbers_to_unlink)
        removed == UnlinkFoundSets(frame_sets, found, frame_numbers_to_unlink)
    IN remove_all_in_place([s \in Range(removed) |-> Cardinality(s) <= 1], removed)

----------------------------------------------------------------------------
\* No operator call is being returned.
NoCall ==
    [op |-> "none", sel |-> {}, targets |-> {}, pre |-> NoProp,
     frame_sets |-> <<>>, count |-> 0, saved |-> FALSE,
     active |-> TRUE, raised |-> FALSE, report |-> <<>>]

\* str(i): the decimal digits of i >= 0.
RECURSIVE StrDigits(_)
StrDigits(i) == IF i < 10 THEN <<i>> ELSE StrDigits(i \div 10) \o <<i % 10>>

\* Mutant of rjust: the fill characters are put behind s.
RECURSIVE ljust(_, _, _)
ljust(s, width, fill) ==
    IF Len(s) >= width THEN s ELSE ljust(s \o <<fill>>, width, fill)

\* s.rjust(width, fill): fill characters are put in front of s up to width.
RECURSIVE rjust(_, _, _)
rjust(s, width, fill) ==
    IF Len(s) >= width THEN s ELSE rjust(<<fill>> \o s, width, fill)

\* LinkedFrameInfo.execute, one line of the report:
\* f'set {str(i).rjust(2, "0")}: {s}', s joining f'{f.number}{" F" if f.flipped else ""}'
\* over sorted(frame_set, key = lambda f: f.number).
InfoLine(i, frame_set) ==
    LET fs == SortedFrames(frame_set)
    IN [text |-> "set",
        label |-> rjust(StrDigits(i), 2, 0),
        frames |-> ListOf([k \in 1..Len(fs) |->
                              <<fs[k].number, IF fs[k].flipped THEN " F" ELSE "">>],
                          Len(fs))]

\* LinkedFrameInfo.execute: the lines it reports for the frame sets it has
\* read, i counting from 1.
InfoReport(frame_sets) ==
    IF Len(frame_sets) > 0
    THEN ListOf([i \in 1..Len(frame_sets) |-> InfoLine(i, frame_sets[i])], Len(frame_sets))
    ELSE <<[text |-> "no linked frames for this action.", label |-> <<>>, frames |-> <<>>]>>

\* Mutant of TargetsOrCurrent: an empty selection stays empty.
TargetsNoFallback(sel, current) == sel

\* `if len(frame_numbers) == 0: frame_numbers = {context.scene.frame_current}`
TargetsOrCurrent(sel, current) == IF Cardinality(sel) = 0 THEN {current} ELSE sel

\* save_pre_handler is not running.
NoHook ==
    [pc |-> "idle", current_frame_number |-> 0, current_flipped |-> FALSE,
     frame_set |-> {}, todo |-> {}, order |-> <<>>,
     area |-> TRUE, active |-> TRUE]

\* A call of the host made by save_pre_handler: bpy.ops.action.copy/paste,
\* bpy.ops.pose.copy/paste (they act at the frame the playhead is at) and
\* scene.frame_set(frame).
HostOp(op, frame, flipped) == [op |-> op, frame |-> frame, flipped |-> flipped]

\* `next(f for f in frame_set if f.number == current_frame_number)`
CurrentFrame(frame_set, current_frame_number) ==
    SortedFrames({f \in frame_set : f.number = current_frame_number})[1]

\* The frames of the set a loop of save_pre_handler pastes to:
\* `if linked_frame.number == current_frame_number: continue`
PasteTargets(frame_set, current_frame_number) ==
    {f \in frame_set : f.number # current_frame_number}

\* Mutant of PasteFlipped: the flag of the current frame is not looked at.
PasteFlippedOfTarget(current_flipped, linked_frame) == linked_frame.flipped

\* `flipped = current_frame.flipped != linked_frame.flipped`
PasteFlipped(current_flipped, linked_frame) == current_flipped # linked_frame.flipped

Init ==
    /\ action_prop = NoProp
    /\ frame_current = 1
    /\ last = NoCall
    /\ hook = NoHook
    /\ host_ops = <<>>

\* The host is between events: no operator call and no handler is running.
HostIdle == last.op = "none" /\ hook.pc = "idle"

\* The user moves the playhead.
SetFrame(f) ==
    /\ HostIdle
    /\ f # frame_current
    /\ frame_current' = f
    /\ UNCHANGED <<action_prop, last, hook, host_ops>>

\* Mutant of LinkFrames: the selection is linked and saved even when empty.
LinkFramesNoGuard(sel) ==
    /\ HostIdle
    /\ LET frame_sets == get_frame_sets_for_action(action_prop)
           linked == LinkFrameSets(frame_sets, sel)
       IN /\ action_prop' = set_frame_sets_for_action(action_prop, linked)
          /\ last' = [op |-> "Link", sel |-> sel, targets |-> sel,
                      pre |-> action_prop, frame_sets |-> linked,
                      count |-> Len(find_linked_frame_sets(frame_sets, sel)),
                      saved |-> TRUE, active |-> TRUE, raised |-> FALSE,
                      report |-> InfoReport(get_frame_sets_for_action(action_prop'))]
    /\ UNCHANGED <<frame_current, hook, host_ops>>

\* LinkFrames.execute with the keyframes of sel selected.
LinkFrames(sel) ==
    /\ HostIdle
    /\ LET frame_sets == get_frame_sets_for_action(action_prop)
           frame_numbers_to_link == sel
       IN IF Cardinality(frame_numbers_to_link) > 0
          THEN LET linked == LinkFrameSets(frame_sets, frame_numbers_to_link)
               IN /\ action_prop' = set_frame_sets_for_action(action_prop, linked)
                  /\ last' = [op |-> "Link", sel |-> sel,
                              targets |-> frame_numbers_to_link,
                              pre |-> action_prop, frame_sets |-> linked,
                              count |-> Len(find_linked_frame_sets(
                                            frame_sets, frame_numbers_to_link)),
                              saved |-> TRUE, active |-> TRUE, raised |-> FALSE,
                              report |-> InfoReport(
                                            get_frame_sets_for_action(action_prop'))]
          ELSE /\ UNCHANGED action_prop
               /\ last' = [op |-> "Link", sel |-> sel, targets |-> {},
                           pre |-> action_prop, frame_sets |-> frame_sets,
                           count |-> 0, saved |-> FALSE,
                           active |-> TRUE, raised |-> FALSE, report |-> <<>>]
    /\ UNCHANGED <<frame_current, hook, host_ops>>

\* FlipLinkedFrame.execute, from the loop to the save: the property the
\* action has after the frames of these numbers were flipped
\* (`if flip_count > 0: set_frame_sets_for_action(action, frame_sets)`).
FlipSaved(act, frame_numbers_to_flip) ==
    LET flipped == FlipFrameSets(get_frame_sets_for_action(act), frame_numbers_to_flip, 0)
    IN IF flipped[2] > 0 THEN set_frame_sets_for_action(act, flipped[1]) ELSE act

\* FlipLinkedFrame.execute with the keyframes of sel selected.
FlipLinkedFrame(sel) ==
    /\ HostIdle
    /\ LET frame_sets == get_frame_sets_for_action(action_prop)
           frame_numbers_to_flip == TargetsOrCurrent(sel, frame_current)
           flipped == FlipFrameSets(frame_sets, frame_numbers_to_flip, 0)
           flip_count == flipped[2]
       IN /\ action_prop' = FlipSaved(action_prop, frame_numbers_to_flip)
          /\ last' = [op |-> "Flip", sel |-> sel, targets |-> frame_numbers_to_flip,
                      pre |-> action_prop, frame_sets |-> flipped[1],
                      count |-> flip_count, saved |-> flip_count > 0,
                      active |-> TRUE, raised |-> FALSE,
                      report |-> IF flip_count > 0
                                 THEN InfoReport(get_frame_sets_for_action(action_prop'))
                                 ELSE <<>>]
    /\ UNCHANGED <<frame_current, hook, host_ops>>

\* UnlinkFrames.execute with the keyframes of sel selected.
UnlinkFrames(sel) ==
    /\ HostIdle
    /\ LET frame_sets == get_frame_sets_for_action(action_prop)
           frame_numbers_to_unlink == TargetsOrCurrent(sel, frame_current)
           found_sets == find_linked_frame_sets(frame_sets, frame_numbers_to_unlink)
       IN IF Len(found_sets) > 0
          THEN LET unlinked == UnlinkFrameSets(frame_sets, frame_numbers_to_unlink)
               IN /\ action_prop' = set_frame_sets_for_action(action_prop, unlinked)
                  /\ last' = [op |-> "Unlink", sel |-> sel,
                              targets |-> frame_numbers_to_unlink,
                              pre |-> action_prop, frame_sets |-> unlinked,
                              count |-> Len(found_sets), saved |-> TRUE,
                              active |-> TRUE, raised |-> FALSE,
                              report |-> InfoReport(
                                            get_frame_sets_for_action(action_prop'))]
          ELSE /\ UNCHANGED action_prop
               /\ last' = [op |-> "Unlink", sel |-> sel,
                           targets |-> frame_numbers_to_unlink,
                           pre |-> action_prop, frame_sets |-> frame_sets,
                           count |-> 0, saved |-> FALSE,
                           active |-> TRUE, raised |-> FALSE, report |-> <<>>]
    /\ UNCHANGED <<frame_current, hook, host_ops>>

\* LinkedFrameInfo.execute.
LinkedFrameInfo ==
    /\ HostIdle
    /\ LET frame_sets == get_frame_sets_for_action(action_prop)
       IN last' = [op |-> "Info", sel |-> {}, targets |-> {},
                   pre |-> action_prop, frame_sets |-> frame_sets,
                   count |-> 0, saved |-> FALSE,
                   active |-> TRUE, raised |-> FALSE,
                   report |-> InfoReport(frame_sets)]
    /\ UNCHANGED <<action_prop, frame_current, hook, host_ops>>

\* LinkFrames.execute, FlipLinkedFrame.execute, UnlinkFrames.execute or
\* LinkedFrameInfo.execute while the object has no action:
\* `action = context.object.animation_data.action` is None and
\* get_frame_sets_for_action(action) evaluates `action.get(...)`, which
\* raises AttributeError; nothing after it runs.
ExecuteWithoutAction(op) ==
    /\ HostIdle
    /\ last' = [NoCall EXCEPT !.op = op, !.pre = action_prop,
                              !.active = FALSE, !.raised = TRUE]
    /\ UNCHANGED <<action_prop, frame_current, hook, host_ops>>

\* The operator call is over (`return {'FINISHED'}`, or the exception has
\* reached the host) and the host takes the next event.
Finished ==
    /\ last.op # "none"
    /\ last' = NoCall
    /\ UNCHANGED <<action_prop, frame_current, hook, host_ops>>

----------------------------------------------------------------------------
\* Mutant of SavePreNoArea: the handler returns when it finds no area.
SavePreNoAreaReturns ==
    /\ HostIdle
    /\ hook' = [NoHook EXCEPT !.pc = "returned", !.area = FALSE]
    /\ UNCHANGED <<action_prop, frame_current, last, host_ops>>

\* save_pre_handler while the screen has no dope sheet and no graph editor:
\* `next(a for a in ... if a.type in (...))` has no default and raises
\* StopIteration on its first line; nothing after it runs.
SavePreNoArea ==
    /\ HostIdle
    /\ hook' = [NoHook EXCEPT !.pc = "raised", !.area = FALSE]
    /\ UNCHANGED <<action_prop, frame_current, last, host_ops>>

\* save_pre_handler while the object has no action: `if not action: return`.
SavePreNoAction ==
    /\ HostIdle
    /\ hook' = [NoHook EXCEPT !.pc = "returned", !.active = FALSE]
    /\ UNCHANGED <<action_prop, frame_current, last, host_ops>>

\* Mutant of SavePreStart: the keyframes are copied before the frame sets
\* are looked at.
SavePreStartCopyFirst ==
    /\ HostIdle
    /\ LET frame_sets == get_frame_sets_for_action(action_prop)
           current_frame_number == frame_current
           i == find_linked_frame_set(frame_sets, current_frame_number)
       IN IF Len(frame_sets) = 0 \/ i = 0 \/ frame_sets[i] = {}
          THEN hook' = [NoHook EXCEPT !.pc = "returned",
                                      !.current_frame_number = current_frame_number]
          ELSE hook' = [pc |-> "action_paste",
                        current_frame_number |-> current_frame_number,
                        current_flipped |-> CurrentFrame(frame_sets[i],
                                                current_frame_number).flipped,
                        frame_set |-> frame_sets[i],
                        todo |-> PasteTargets(frame_sets[i], current_frame_number),
                        order |-> <<>>,
                        area |-> TRUE, active |-> TRUE]
    /\ host_ops' = <<HostOp("action.copy", frame_current, FALSE)>>
    /\ UNCHANGED <<action_prop, frame_current, last>>

\* save_pre_handler with an editor area and an action, from its start to
\* action.copy(): the early returns, or
\* the copy of the keyframes of the current frame.
SavePreStart ==
    /\ HostIdle
    /\ LET frame_sets == get_frame_sets_for_action(action_prop)
           current_frame_number == frame_current
           i == find_linked_frame_set(frame_sets, current_frame_number)
       IN IF Len(frame_sets) = 0 \/ i = 0 \/ frame_sets[i] = {}
          THEN /\ hook' = [NoHook EXCEPT !.pc = "returned",
                                         !.current_frame_number = current_frame_number]
               /\ UNCHANGED host_ops
          ELSE /\ hook' = [pc |-> "action_paste",
                           current_frame_number |-> current_frame_number,
                           current_flipped |-> CurrentFrame(frame_sets[i],
                                                   current_frame_number).flipped,
                           frame_set |-> frame_sets[i],
                           todo |-> PasteTargets(frame_sets[i], current_frame_number),
                           order |-> <<>>,
                           area |-> TRUE, active |-> TRUE]
               /\ host_ops' = <<HostOp("action.copy", frame_current, FALSE)>>
    /\ UNCHANGED <<action_prop, frame_current, last>>

\* One iteration of the first `for linked_frame in frame_set` loop that
\* does not `continue`: frame_set(linked_frame.number) and action.paste().
\* The set is iterated in an order the code does not choose: any frame not
\* yet visited may come next.
SavePreActionPaste(linked_frame) ==
    /\ hook.pc = "action_paste"
    /\ linked_frame \in hook.todo
    /\ frame_current' = linked_frame.number
    /\ host_ops' = host_ops \o
           <<HostOp("frame_set", linked_frame.number, FALSE),
             HostOp("action.paste", frame_current',
                    PasteFlipped(hook.current_flipped, linked_frame))>>
    /\ hook' = [hook EXCEPT !.todo = @ \ {linked_frame},
                            !.order = Append(@, linked_frame)]
    /\ UNCHANGED <<action_prop, last>>

\* Mutant of SavePrePoseCopy: the pose is copied where the last paste left
\* the playhead.
SavePrePoseCopyNoFrameSet ==
    /\ hook.pc = "action_paste"
    /\ hook.todo = {}
    /\ host_ops' = Append(host_ops, HostOp("pose.copy", frame_current, FALSE))
    /\ hook' = [hook EXCEPT !.pc = "pose_paste",
                            !.todo = PasteTargets(hook.frame_set, hook.current_frame_number)]
    /\ UNCHANGED <<action_prop, last, frame_current>>

\* Between the loops: frame_set(current_frame_number) and pose.copy().
SavePrePoseCopy ==
    /\ hook.pc = "action_paste"
    /\ hook.todo = {}
    /\ frame_current' = hook.current_frame_number
    /\ host_ops' = host_ops \o
           <<HostOp("frame_set", hook.current_frame_number, FALSE),
             HostOp("pose.copy", frame_current', FALSE)>>
    /\ hook' = [hook EXCEPT !.pc = "pose_paste",
                            !.todo = PasteTargets(hook.frame_set, hook.current_frame_number)]
    /\ UNCHANGED <<action_prop, last>>

\* One iteration of the second loop that does not `continue`:
\* frame_set(linked_frame.number) and pose.paste().  The set is the same and
\* unchanged, so the frames come in the order of the first loop.
SavePrePosePaste ==
    /\ hook.pc = "pose_paste"
    /\ hook.todo # {}
    /\ LET linked_frame == hook.order[Len(hook.order) - Cardinality(hook.todo) + 1]
       IN /\ frame_current' = linked_frame.number
          /\ host_ops' = host_ops \o
                 <<HostOp("frame_set", linked_frame.number, FALSE),
                   HostOp("pose.paste", frame_current',
                          PasteFlipped(hook.current_flipped, linked_frame))>>
          /\ hook' = [hook EXCEPT !.todo = @ \ {linked_frame}]
    /\ UNCHANGED <<action_prop, last>>

\* Mutant of SavePreEnd: the handler saves the frame set it worked on.
SavePreEndSaving ==
    /\ hook.pc = "pose_paste"
    /\ hook.todo = {}
    /\ frame_current' = hook.current_frame_number
    /\ host_ops' = Append(host_ops, HostOp("frame_set", hook.current_frame_number, FALSE))
    /\ hook' = [hook EXCEPT !.pc = "finished"]
    /\ action_prop' = set_frame_sets_for_action(action_prop, <<hook.frame_set>>)
    /\ UNCHANGED last

\* Mutant of SavePreEnd: the playhead stays where the last paste left it.
SavePreEndNoFrameSet ==
    /\ hook.pc = "pose_paste"
    /\ hook.todo = {}
    /\ hook' = [hook EXCEPT !.pc = "finished"]
    /\ UNCHANGED <<action_prop, last, frame_current, host_ops>>

\* After the second loop: frame_set(current_frame_number) and the restoring
\* of the bone selection and of the area type.
SavePreEnd ==
    /\ hook.pc = "pose_paste"
    /\ hook.todo = {}
    /\ frame_current' = hook.current_frame_number
    /\ host_ops' = Append(host_ops, HostOp("frame_set", hook.current_frame_number, FALSE))
    /\ hook' = [hook EXCEPT !.pc = "finished"]
    /\ UNCHANGED <<action_prop, last>>

\* The handler has returned or raised; the host saves the file and takes the
\* next event.
SavePreReturn ==
    /\ hook.pc \in {"returned", "finished", "raised"}
    /\ hook' = NoHook
    /\ host_ops' = <<>>
    /\ UNCHANGED <<action_prop, frame_current, last>>

Next ==
    \/ \E f \in Frames : SetFrame(f)
    \/ \E sel \in SUBSET Frames : LinkFrames(sel)
    \/ \E sel \in SUBSET Frames : FlipLinkedFrame(sel)
    \/ \E sel \in SUBSET Frames : UnlinkFrames(sel)
    \/ LinkedFrameInfo
    \/ \E op \in {"Link", "Flip", "Unlink", "Info"} : ExecuteWithoutAction(op)
    \/ Finished
    \/ SavePreNoArea
    \/ SavePreNoAction
    \/ SavePreStart
    \/ \E linked_frame \in hook.frame_set : SavePreActionPaste(linked_frame)
    \/ SavePrePoseCopy
    \/ SavePrePosePaste
    \/ SavePreEnd
    \/ SavePreReturn

Spec == Init /\ [][Next]_vars

----------------------------------------------------------------------------
(***************************************************************************)
(* The stored property read as a partition: the sequence of its groups,    *)
(* each the set of its members [number, flipped].                          *)
(***************************************************************************)
StoredGroups(p) ==
    ListOf([i \in 1..Len(p.val) |->
               {[number |-> p.val[i][k][1], flipped |-> p.val[i][k][2] = 1] :
                   k \in 1..Len(p.val[i])}],
           Len(p.val))

\* The frame numbers of a group, and of all groups of a partition.
Numbers(group) == {m.number : m \in group}
AllNumbers(groups) == UNION {Numbers(groups[i]) : i \in 1..Len(groups)}

\* The indices of the groups with a member whose number is in S.
Touched(groups, S) == {i \in 1..Len(groups) : Numbers(groups[i]) \cap S # {}}

\* New members for the numbers of S that group has not: mirrored = false.
Fresh(group, S) == {[number |-> n, flipped |-> FALSE] : n \in S \ Numbers(group)}

\* The subsequence of the groups whose index is in I.
RECURSIVE Keep(_, _, _)
Keep(groups, I, i) ==
    IF i > Len(groups) THEN <<>>
    ELSE (IF i \in I THEN <<groups[i]>> ELSE <<>>) \o Keep(groups, I, i + 1)

\* C1: each frame number occurs at most once in the stored property: in at
\* most one group, and at most once in it, whatever the flags.
C1_PositionsUnique ==
    \A n \in Frames :
        Cardinality({ik \in {<<i, k>> : i \in 1..Len(action_prop.val), k \in 1..NumFrames + 1} :
                        /\ ik[2] <= Len(action_prop.val[ik[1]])
                        /\ action_prop.val[ik[1]][ik[2]][1] = n}) <= 1

\* A Link has re-selected a member whose flag is set (the new LinkedFrame of
\* the same number has the flag unset), with two groups stored afterwards.
C1_Witness ==
    /\ last.op = "Link"
    /\ action_prop.has
    /\ Len(action_prop.val) >= 2
    /\ \E i \in 1..Len(last.pre.val) : \E m \in StoredGroups(last.pre)[i] :
          m.number \in last.sel /\ m.flipped

\* C2: the stored property is absent, or a non-empty sequence of groups of
\* at least 2 members; a save of a partition without a group of 2 or more
\* members leaves no property.
C2_NoDegenerateStored ==
    /\ action_prop.has =>
          /\ Len(action_prop.val) >= 1
          /\ \A i \in 1..Len(action_prop.val) : Len(action_prop.val[i]) >= 2
    /\ (last.saved /\ \A i \in 1..Len(last.frame_sets) : Cardinality(last.frame_sets[i]) < 2)
          => ~action_prop.has

\* An Unlink has saved a partition with no group left, and the property that
\* was stored before is gone.
C2_Witness ==
    /\ last.op = "Unlink"
    /\ last.saved
    /\ last.pre.has
    /\ last.frame_sets = <<>>
    /\ ~action_prop.has

\* The group Link makes of a selection S that touches no group: the numbers
\* of S, flags alternating in ascending order from false.
AlternatingGroup(S) ==
    {[number |-> n, flipped |-> Cardinality({m \in S : m < n}) % 2 = 1] : n \in S}

\* C3: a Link with a non-empty selection that touches no stored group adds
\* exactly one group to the partition, AlternatingGroup(selection), and
\* leaves the groups there were as they are.  (The partition is the list
\* handed to the save; the save stores the new group when it has 2 members
\* or more.)
C3_LinkNewGroup ==
    (last.op = "Link" /\ last.sel # {} /\ Touched(StoredGroups(last.pre), last.sel) = {})
    => LET old == StoredGroups(last.pre)
           new == AlternatingGroup(last.sel)
       IN /\ last.frame_sets = Append(old, new)
          /\ Cardinality(last.sel) >= 2 => StoredGroups(action_prop) = Append(old, new)
          /\ Cardinality(last.sel) = 1 => StoredGroups(action_prop) = old

\* A Link of 3 untouched frames next to a group that was already stored.
C3_Witness ==
    /\ last.op = "Link"
    /\ Cardinality(last.sel) = 3
    /\ last.pre.has
    /\ Touched(StoredGroups(last.pre), last.sel) = {}
    /\ Len(action_prop.val) = 2

\* C4: a Link whose selection touches exactly one group adds to it the
\* selected numbers it has not, with mirrored = false; its members keep
\* their flags and every other group is unchanged.
C4_LinkOneGroup ==
    (last.op = "Link" /\ Cardinality(Touched(StoredGroups(last.pre), last.sel)) = 1)
    => LET old == StoredGroups(last.pre)
           g == CHOOSE i \in Touched(old, last.sel) : TRUE
           new == [old EXCEPT ![g] = old[g] \cup Fresh(old[g], last.sel)]
       IN /\ last.frame_sets = new
          /\ StoredGroups(action_prop) = new

\* A Link that re-selects a mirrored member of a group together with a frame
\* no group has, while a second group is stored.
C4_Witness ==
    /\ last.op = "Link"
    /\ LET old == StoredGroups(last.pre)
       IN /\ Len(old) = 2
          /\ Cardinality(Touched(old, last.sel)) = 1
          /\ last.sel \ AllNumbers(old) # {}
          /\ \E i \in Touched(old, last.sel) : \E m \in old[i] :
                m.number \in last.sel /\ m.flipped
    /\ Len(action_prop.val) = 2

C6_Unlink ==
    last.op = "Unlink"
    => LET old == StoredGroups(last.pre)
           cut == ListOf([i \in 1..Len(old) |->
                             {m \in old[i] : m.number \notin last.targets}], Len(old))
           new == Keep(cut, {i \in 1..Len(cut) : Cardinality(cut[i]) >= 2}, 1)
       IN IF Touched(old, last.targets) # {}
          THEN /\ last.saved
               /\ last.frame_sets = new
               /\ StoredGroups(action_prop) = new
               /\ AllNumbers(StoredGroups(action_prop)) \cap last.targets = {}
               /\ \A i \in (1..Len(old)) \ Touched(old, last.targets) :
                     \E j \in 1..Len(action_prop.val) : StoredGroups(action_prop)[j] = old[i]
          ELSE ~last.saved /\ action_prop = last.pre

\* An Unlink has taken 1 member out of a group of 3, which is stored with
\* its 2 other members, one of them mirrored, and has taken a member out of
\* a group of 2, which is stored no more.
C6_Witness ==
    /\ last.op = "Unlink"
    /\ LET old == StoredGroups(last.pre)
       IN /\ Len(old) = 2
          /\ \E i, j \in 1..2 :
                /\ Cardinality(old[i]) = 3
                /\ Cardinality(Numbers(old[i]) \cap last.targets) = 1
                /\ Cardinality(old[j]) = 2
                /\ Cardinality(Numbers(old[j]) \cap last.targets) = 1
    /\ Len(action_prop.val) = 1
    /\ Len(action_prop.val[1]) = 2
    /\ \E m \in StoredGroups(action_prop)[1] : m.flipped

\* C7: a Flip negates the flag of the members whose number is a target and
\* of no other, and changes no group's members; its flip count is the number
\* of targets that some group has; with a count of 0 nothing is saved.
C7_Flip ==
    last.op = "Flip"
    => LET old == StoredGroups(last.pre)
           found == last.targets \cap AllNumbers(old)
           new == ListOf([i \in 1..Len(old) |->
                     {[number |-> m.number,
                       flipped |-> IF m.number \in last.targets THEN ~m.flipped
                                   ELSE m.flipped] : m \in old[i]}], Len(old))
       IN /\ last.count = Cardinality(found)
          /\ last.saved = (found # {})
          /\ found # {} => StoredGroups(action_prop) = new /\ action_prop.has
          /\ found = {} => action_prop = last.pre

\* A Flip of three targets: a mirrored member, a member that is not mirrored
\* and a frame no group has, with a second group stored that has no target.
C7_Witness ==
    /\ last.op = "Flip"
    /\ last.count = 2
    /\ Cardinality(last.targets) = 3
    /\ LET old == StoredGroups(last.pre)
       IN /\ Len(old) = 2
          /\ Cardinality(Touched(old, last.targets)) = 1
          /\ \E i \in 1..2 : \E m1, m2 \in old[i] :
                /\ m1.number \in last.targets /\ m1.flipped
                /\ m2.number \in last.targets /\ ~m2.flipped
    /\ Len(action_prop.val) = 2

\* C8: reading back the property a save has written gives the partition that
\* was saved, whenever all its groups have 2 members or more: the same groups
\* in the same order, with the same numbers and flags.
C8_RoundTrip ==
    (last.saved /\ \A i \in 1..Len(last.frame_sets) : Cardinality(last.frame_sets[i]) >= 2)
    => get_frame_sets_for_action(action_prop) = last.frame_sets

\* A partition of a group of 3 and a group of 2, with mirrored and not
\* mirrored members, has been saved.
C8_Witness ==
    /\ last.saved
    /\ Len(last.frame_sets) = 2
    /\ Cardinality(last.frame_sets[1]) = 3
    /\ Cardinality(last.frame_sets[2]) = 2
    /\ \E m \in last.frame_sets[1] : m.flipped
    /\ \E m \in last.frame_sets[2] : ~m.flipped
    /\ action_prop.has

\* The stored group with the frame the handler started at, {} when none.
TriggerGroup ==
    LET groups == StoredGroups(action_prop)
        hits == {i \in 1..Len(groups) : hook.current_frame_number \in Numbers(groups[i])}
    IN IF hits = {} THEN {} ELSE groups[CHOOSE i \in hits : TRUE]

\* The indices of the calls of host_ops that are a paste.
Pastes == {k \in 1..Len(host_ops) : host_ops[k].op \in {"action.paste", "pose.paste"}}

\* C9: no paste is made with the playhead at the frame the handler started
\* at or at a frame outside its group; when the handler has finished, every
\* other member of the group has got exactly one paste of each of the two
\* channels, flipped exactly when its flag differs from the trigger's.
C9_Pastes ==
    /\ \A k \in Pastes :
          /\ host_ops[k].frame # hook.current_frame_number
          /\ host_ops[k].frame \in Numbers(TriggerGroup)
    /\ hook.pc = "finished" =>
          \A channel \in {"action.paste", "pose.paste"} :
             \A m \in TriggerGroup :
                m.number # hook.current_frame_number =>
                   LET to_m == {k \in Pastes : /\ host_ops[k].op = channel
                                               /\ host_ops[k].frame = m.number}
                       trigger == CHOOSE t \in TriggerGroup :
                                     t.number = hook.current_frame_number
                   IN /\ Cardinality(to_m) = 1
                      /\ \A k \in to_m :
                            host_ops[k].flipped = (trigger.flipped # m.flipped)

\* The handler has finished for a mirrored trigger in a group of 4 with
\* mirrored and not mirrored other members.
C9_Witness ==
    /\ hook.pc = "finished"
    /\ Cardinality(TriggerGroup) = 4
    /\ \E t, m1, m2 \in TriggerGroup :
          /\ t.number = hook.current_frame_number /\ t.flipped
          /\ m1.number # t.number /\ m1.flipped
          /\ m2.number # t.number /\ ~m2.flipped
    /\ Cardinality(Pastes) = 6

\* C10: every paste comes right after the frame_set that moves the playhead
\* to the member it is for, and when the handler has finished the playhead is
\* at the frame it started at (the frame of its first call, the copy).
C10_Playhead ==
    /\ \A k \in Pastes :
          /\ k > 1
          /\ host_ops[k - 1].op = "frame_set"
          /\ host_ops[k - 1].frame = host_ops[k].frame
          /\ \E m \in TriggerGroup : m.number = host_ops[k].frame
    /\ hook.pc = "finished" =>
          /\ frame_current = hook.current_frame_number
          /\ host_ops[1].frame = hook.current_frame_number

\* The handler has finished after pasting to 2 other members in both passes.
C10_Witness ==
    /\ hook.pc = "finished"
    /\ Cardinality(Pastes) = 4
    /\ frame_current = hook.current_frame_number
    /\ \E k \in Pastes : host_ops[k].frame > frame_current
    /\ \E k \in Pastes : host_ops[k].frame < frame_current

C12_LinkEmptyNoOp ==
    (last.op = "Link" /\ last.active /\ last.sel = {})
    => /\ action_prop = last.pre
       /\ ~last.saved
       /\ ~last.raised
       /\ last.report = <<>>

\* A Link with nothing selected has returned while a property is stored.
C12_Witness ==
    /\ last.op = "Link"
    /\ last.active
    /\ last.sel = {}
    /\ action_prop.has
    /\ action_prop = last.pre

\* The groups with the member of number n, if any, taken out.
Without(groups, n) ==
    ListOf([i \in 1..Len(groups) |-> {m \in groups[i] : m.number # n}], Len(groups))

\* C13: with nothing selected, Flip and Unlink act on the frame the playhead
\* is at: Flip negates the flag of the member there, Unlink takes that frame
\* out of its group (a group left with 1 member is dropped).  Unlink, with
\* any selection, saves exactly when its targets touch a group and leaves
\* the stored property as it was otherwise.
C13_PlayheadFallback ==
    /\ (last.op \in {"Flip", "Unlink"} /\ last.active /\ last.sel = {})
       => LET old == StoredGroups(last.pre)
              cut == Without(old, frame_current)
          IN /\ last.targets = {frame_current}
             /\ last.op = "Flip" =>
                   StoredGroups(action_prop) =
                      ListOf([i \in 1..Len(old) |->
                                {[number |-> m.number,
                                  flipped |-> IF m.number = frame_current
                                              THEN ~m.flipped ELSE m.flipped] :
                                    m \in old[i]}], Len(old))
             /\ last.op = "Unlink" =>
                   StoredGroups(action_prop) =
                      Keep(cut, {i \in 1..Len(cut) : Cardinality(cut[i]) >= 2}, 1)
    /\ (last.op = "Unlink" /\ last.active)
       => /\ last.saved = (Touched(StoredGroups(last.pre), last.targets) # {})
          /\ ~last.saved => action_prop = last.pre

\* An Unlink with nothing selected has taken the frame of the playhead, a
\* mirrored member, out of a group of 3, next to a second group.
C13_Witness ==
    /\ last.op = "Unlink"
    /\ last.active
    /\ last.sel = {}
    /\ last.saved
    /\ Len(last.pre.val) = 2
    /\ \E i \in 1..2 : \E m \in StoredGroups(last.pre)[i] :
          /\ m.number = frame_current /\ m.flipped
          /\ Len(last.pre.val[i]) = 3
    /\ Len(action_prop.val) = 2
    /\ frame_current \notin AllNumbers(StoredGroups(action_prop))

\* C14 (as claimed): a command run while the object has no action returns
\* without raising and leaves the stored property as it was.
C14_NoActionNoOp ==
    (last.op # "none" /\ ~last.active)
    => /\ ~last.raised
       /\ action_prop = last.pre

\* C15: without a dope sheet or graph editor area the handler raises, and
\* it has made no copy, no paste and no frame_set; it raises in no other
\* case.
C15_NoAreaRaises ==
    /\ (hook.pc # "idle" /\ ~hook.area)
       => /\ hook.pc = "raised"
          /\ host_ops = <<>>
    /\ hook.pc = "raised" => ~hook.area

\* The handler has raised for want of an area while the playhead is at a
\* frame of a stored group.
C15_Witness ==
    /\ hook.pc = "raised"
    /\ ~hook.area
    /\ host_ops = <<>>
    /\ frame_current \in AllNumbers(StoredGroups(action_prop))

\* C16: the report of LinkedFrameInfo has one line per stored group, in the
\* stored order, labelled 01, 02, ..., with the members of the group in
\* ascending number and " F" behind the mirrored ones; with nothing stored
\* it is the single line "no linked frames"; the Info command leaves the
\* stored property as it was.
C16_InfoReport ==
    /\ last.report # <<>> =>
          LET groups == StoredGroups(action_prop)
          IN IF Len(groups) = 0
             THEN /\ Len(last.report) = 1
                  /\ last.report[1].text = "no linked frames for this action."
             ELSE /\ Len(last.report) = Len(groups)
                  /\ \A i \in 1..Len(groups) :
                        LET line == last.report[i]
                        IN /\ line.text = "set"
                           /\ i < 10 => line.label = <<0, i>>
                           /\ Len(line.frames) = Cardinality(groups[i])
                           /\ \A k \in 1..Len(line.frames) - 1 :
                                 line.frames[k][1] < line.frames[k + 1][1]
                           /\ Range(line.frames) =
                                 {<<m.number, IF m.flipped THEN " F" ELSE "">> :
                                     m \in groups[i]}
    /\ (last.op = "Info" /\ last.active)
       => /\ last.report # <<>>
          /\ action_prop = last.pre
          /\ ~last.saved

\* The Info command has reported two groups, the second with a mirrored
\* member that has not the greatest number of its group.
C16_Witness ==
    /\ last.op = "Info"
    /\ Len(last.report) = 2
    /\ Len(last.report[2].frames) = 3
    /\ last.report[2].frames[2][2] = " F"
    /\ last.report[2].frames[3][2] = ""

\* The indices of the calls of host_ops that are op.
Calls(op) == {k \in 1..Len(host_ops) : host_ops[k].op = op}

\* C17: each channel is copied at most once, and once when the handler has
\* finished, with the playhead at the frame the handler started at; a paste
\* of a channel comes after its copy; the pose is copied only after all the
\* pastes of the keyframes and right after the frame_set back to the frame
\* the handler started at.
C17_CopyOrder ==
    /\ \A op \in {"action.copy", "pose.copy"} :
          /\ Cardinality(Calls(op)) <= 1
          /\ hook.pc = "finished" => Cardinality(Calls(op)) = 1
          /\ \A c \in Calls(op) : host_ops[c].frame = hook.current_frame_number
    /\ \A p \in Calls("action.paste") : \E c \in Calls("action.copy") : c < p
    /\ \A p \in Calls("pose.paste") : \E c \in Calls("pose.copy") : c < p
    /\ \A c \in Calls("pose.copy") :
          /\ \A p \in Calls("action.paste") : p < c
          /\ Cardinality(Calls("action.paste")) = Cardinality(TriggerGroup) - 1
          /\ host_ops[c - 1] = [op |-> "frame_set",
                                frame |-> hook.current_frame_number,
                                flipped |-> FALSE]

\* The handler has finished for a group of 3: 2 pastes after each copy.
C17_Witness ==
    /\ hook.pc = "finished"
    /\ Cardinality(TriggerGroup) = 3
    /\ Cardinality(Calls("action.paste")) = 2
    /\ Cardinality(Calls("pose.paste")) = 2
    /\ Cardinality(Calls("pose.copy")) = 1

\* C18: no step of the handler changes the stored property, whether it
\* pastes, returns early or raises.
C18_HookKeepsPartition ==
    [][(hook.pc # "idle" \/ hook'.pc # "idle") => action_prop' = action_prop]_vars

\* The handler has finished its pastes while two groups are stored.
C18_Witness ==
    /\ hook.pc = "finished"
    /\ Len(action_prop.val) = 2
    /\ Cardinality(Pastes) >= 2

\* C19: after a Link of 2 or more frames exactly one stored group has
\* selected frames and it has them all; the frames of a group that was
\* stored before are still together in one group; a Link within the only
\* group leaves that one group with the same frames.
C19_LinkTogether ==
    (last.op = "Link" /\ last.active /\ Cardinality(last.sel) >= 2)
    => LET old == StoredGroups(last.pre)
           new == StoredGroups(action_prop)
       IN /\ Cardinality(Touched(new, last.sel)) = 1
          /\ \A i \in Touched(new, last.sel) : last.sel \subseteq Numbers(new[i])
          /\ \A j \in 1..Len(old) :
                \E i \in 1..Len(new) : Numbers(old[j]) \subseteq Numbers(new[i])
          /\ (Len(old) = 1 /\ last.sel \subseteq Numbers(old[1]))
                => Len(new) = 1 /\ Numbers(new[1]) = Numbers(old[1])

\* A Link of 2 frames, one from each of two groups, has left one group of
\* the 4 frames of both.
C19_Witness ==
    /\ last.op = "Link"
    /\ Cardinality(last.sel) = 2
    /\ Len(last.pre.val) = 2
    /\ Cardinality(Touched(StoredGroups(last.pre), last.sel)) = 2
    /\ Len(action_prop.val) = 1
    /\ Numbers(StoredGroups(action_prop)[1]) = AllNumbers(StoredGroups(last.pre))

\* C20: the Flip command run once more with the same targets gives back the
\* property that was stored before the Flip that has just run.
C20_FlipTwice ==
    (last.op = "Flip" /\ last.active)
    => FlipSaved(action_prop, last.targets) = last.pre

\* A Flip of a mirrored member, a member not mirrored and a frame of no
\* group has changed the stored property.
C20_Witness ==
    /\ last.op = "Flip"
    /\ last.saved
    /\ Cardinality(last.targets \ AllNumbers(StoredGroups(last.pre))) = 1
    /\ \E i \in 1..Len(last.pre.val) : \E m1, m2 \in StoredGroups(last.pre)[i] :
          /\ m1.number \in last.targets /\ m1.flipped
          /\ m2.number \in last.targets /\ ~m2.flipped
    /\ action_prop # last.pre

====
